---- MODULE Spec2Model ----
(***************************************************************************)
(* State-machine model of the GraphViewer component                        *)
(* (src/src/app/components/GraphViewer.tsx): the category filter, the      *)
(* category checkboxes, the progressive reveal scheduler, the layout       *)
(* offload worker, the hover/highlight handlers, the focus and click       *)
(* handlers, the level-of-detail clusterer, the remote search handler and  *)
(* the external-result mapper.                                             *)
(*                                                                         *)
(* React state hooks are variables; props owned by the parent are          *)
(* variables changed by the actions that call the parent's setters; memo   *)
(* values (optimizedNodes, filteredGraphData) are operators over the       *)
(* state; pending callbacks (animation frames, worker responses, API       *)
(* calls) are collections of closures.                                     *)
(***************************************************************************)
EXTENDS Integers, Sequences, FiniteSets, TLC

VARIABLES
  \* props
  data,
  includeDocuments, includeTextUnits, includeCommunities, includeCovariates,
  hasDocuments, hasTextUnits, hasCommunities, hasCovariates,
  \* highlight state
  highlightNodes, highlightLinks, hoverNode,
  \* graph store / remote search
  graphData, initialGraphData, apiSearchResults, apiDrawerOpen, pendingSearches,
  \* layout offload
  workerRunning, workers,
  \* progressive reveal
  visibleNodes, rafQueue,
  \* component lifecycle and switches
  mounted, showHighlight,
  \* panels, selection and linked context
  rightDrawerOpen, bottomDrawerOpen, selectedNode, selectedRelationship,
  linkedNodes, linkedRelationships,
  \* pending setTimeout callbacks, and the zoom factor in hundredths
  timers, graphZoom,
  \* the fuzzy search list, the server-up flag and the status probe in flight
  searchResults, serverUp, statusProbe,
  \* time in ms, and the times of the last HighlightSet recomputations that
  \* node-hover events caused (history, not program state)
  now, recomputeTimes,
  \* observation of the last handler that ran (history, not program state)
  lastOp

propVars == <<data, includeDocuments, includeTextUnits, includeCommunities,
              includeCovariates, hasDocuments, hasTextUnits, hasCommunities,
              hasCovariates>>
flagVars == <<includeDocuments, includeTextUnits, includeCommunities,
              includeCovariates>>
hasVars == <<hasDocuments, hasTextUnits, hasCommunities, hasCovariates>>
hlVars == <<highlightNodes, highlightLinks, hoverNode>>
storeVars == <<graphData, initialGraphData>>
searchVars == <<apiSearchResults, apiDrawerOpen, pendingSearches>>
offloadVars == <<workerRunning, workers>>
revealVars == <<visibleNodes, rafQueue>>
clockVars == <<now, recomputeTimes>>
selectVars == <<selectedNode, selectedRelationship, linkedNodes,
                linkedRelationships, bottomDrawerOpen>>
panelVars == <<searchResults, serverUp, statusProbe>>
viewVars == <<rightDrawerOpen, selectVars, timers, graphZoom, panelVars>>

vars == <<propVars, hlVars, storeVars, searchVars, offloadVars, revealVars,
          mounted, showHighlight, viewVars, clockVars, lastOp>>

(***************************************************************************)
(* Bounds of the model.                                                    *)
(***************************************************************************)
\* number of nodes of the generated datasets of the category-filter check
NumFilterNodes == 2
\* number of dataset replacements (new data prop) in one behaviour
MaxDataChanges == 3
\* largest number of items of a remote search response
MaxItems == 1
\* largest number of remote searches awaiting their response
MaxPending == 1
\* the clock: the step of time and the end of time, in ms
TickMs == 50
MaxTime == 200
\* node counts of the generated datasets of the reveal / offload check
SmallSize == 30
MediumSize == 250
LargeSize == 1001

(***************************************************************************)
(* Program constants.                                                      *)
(***************************************************************************)
\* const chunkSize = 100
chunkSize == 100
\* data.nodes.length > 1000
OffloadThreshold == 1000
\* debounce(..., 100)
HoverWait == 100
\* useState(1) of graphZoom; zoom factors are held in hundredths
InitialZoom == 100
\* graphZoom < 0.5, in hundredths
LowZoom == 50
\* useState(100) of clusterThreshold
clusterThreshold == 100

(***************************************************************************)
(* Data model: CustomNode, CustomLink, CustomGraphData.                    *)
(* A link endpoint is a raw node id (typeof "string") or, once the         *)
(* rendering surface has resolved it, a node object (typeof "object").     *)
(***************************************************************************)
RawEnd(id) == [kind |-> "string", raw |-> id, node |-> 0]
ObjEnd(id) == [kind |-> "object", raw |-> 0, node |-> id]

\* a JavaScript value that is a number, a string of digits, or undefined
JsNum(n) == [t |-> "number", v |-> n]
JsStr(n) == [t |-> "string", v |-> n]
JsUndef == [t |-> "undefined", v |-> 0]

\* value.toString(): the decimal string of a number, a string itself
ToStr(val) == IF val.t = "number" THEN JsStr(val.v) ELSE val

\* ds stands for the identity of the object: the dataset version it belongs to
MkNode(ds, id, type, hrid, uuid, cov, text, neighbors, links, x, y) ==
  [ds |-> ds, id |-> id, type |-> type, human_readable_id |-> hrid, uuid |-> uuid,
   covariate_type |-> cov, text |-> text, neighbors |-> neighbors,
   links |-> links, x |-> x, y |-> y]

MkLink(ds, lid, source, target, hrid) ==
  [ds |-> ds, lid |-> lid, source |-> source, target |-> target, human_readable_id |-> hrid]

MkData(ver, nodes, links) == [ver |-> ver, nodes |-> nodes, links |-> links]

\* node.type values of the datasets, in the spellings the loader may produce
NodeTypes == {"PERSON", "TextUnit", "community", "COVARIATE", "document"}

\* String.prototype.toLowerCase on the type names
ToLowerCase(s) ==
  CASE s = "PERSON" -> "person"
    [] s = "TextUnit" -> "textunit"
    [] s = "COVARIATE" -> "covariate"
    [] OTHER -> s

Range(seq) == {seq[i] : i \in 1..Len(seq)}

(***************************************************************************)
(* Memo values.                                                            *)
(***************************************************************************)
\* the copy with the degree left at 0
WithDegreeZero(node) ==
  [f \in DOMAIN node \cup {"degree"} |-> IF f = "degree" THEN 0 ELSE node[f]]
\* degree: node.neighbors?.length || 0
WithDegree(node) ==
  [f \in DOMAIN node \cup {"degree"} |->
     IF f = "degree"
       THEN IF "neighbors" \in DOMAIN node THEN Len(node.neighbors) ELSE 0
       ELSE node[f]]

optimizedNodes == [i \in 1..Len(data.nodes) |-> WithDegree(data.nodes[i])]

\* the switch of the node filter
IncludeNodeAlways(node) == TRUE
IncludeNode(node) ==
  CASE ToLowerCase(node.type) = "textunit" -> includeTextUnits
    [] ToLowerCase(node.type) = "community" -> includeCommunities
    [] ToLowerCase(node.type) = "covariate" -> includeCovariates
    [] ToLowerCase(node.type) = "document" -> includeDocuments
    [] OTHER -> TRUE

\* typeof end === 'object' ? end.id : end
EndpointId(end) == IF end.kind = "object" THEN end.node ELSE end.raw

IncludeLinkEither(link, nodeIds) ==
  EndpointId(link.source) \in nodeIds \/ EndpointId(link.target) \in nodeIds
IncludeLink(link, nodeIds) ==
  EndpointId(link.source) \in nodeIds /\ EndpointId(link.target) \in nodeIds

filteredGraphData ==
  LET filteredNodes == SelectSeq(optimizedNodes, IncludeNode)
      nodeIds == {n.id : n \in Range(filteredNodes)}
      keep(link) == IncludeLink(link, nodeIds)
  IN  [nodes |-> filteredNodes, links |-> SelectSeq(data.links, keep)]

\* the graphData prop of ForceGraph2D / ForceGraph3D
renderedGraphData == filteredGraphData

(***************************************************************************)
(* Effects that run when the data prop changes (and at mount).             *)
(***************************************************************************)
Min(a, b) == IF a <= b THEN a ELSE b

\* Array.prototype.slice(from, to)
Slice(seq, from, to) == SubSeq(seq, from + 1, Min(to, Len(seq)))

\* the closure of one progressive-reveal loop: the nodes of the render that
\* started it and its currentIndex
RevealLoop(nodes, currentIndex) == [nodes |-> nodes, currentIndex |-> currentIndex]

\* useEffect(..., [data, workerRunning]): the offload gate
ShouldOffloadIgnoringGate(d, running) == Len(d.nodes) > OffloadThreshold
ShouldOffload(d, running) == ~running /\ Len(d.nodes) > OffloadThreshold

\* the pending worker: the closure of its onmessage handler
Worker(d) == [data |-> d]

\* what the background layout task (forceWorker) answers for a posted graph
WorkerResult(d) ==
  [d EXCEPT !.nodes = [i \in 1..Len(d.nodes) |->
                         [d.nodes[i] EXCEPT !.x = @ + 1, !.y = @ + 1]]]

\* the effects with data in their dependency list, for a render with data d
DataEffects(d) ==
  /\ graphData' = d
  /\ initialGraphData' = d
  /\ IF ShouldOffload(d, workerRunning)
       THEN /\ workers' = Append(workers, Worker(d))
            /\ workerRunning' = TRUE
       ELSE UNCHANGED offloadVars
  /\ visibleNodes' = <<>>
  /\ rafQueue' = Append(rafQueue, RevealLoop(d.nodes, 0))

\* the parent's "category present" props for a dataset
HasType(d, t) == \E i \in 1..Len(d.nodes) : ToLowerCase(d.nodes[i].type) = t

\* the parent passes a new data object
DataChange(d) ==
  /\ mounted
  /\ data.ver < MaxDataChanges
  /\ d.ver = data.ver + 1
  /\ data' = d
  /\ hasDocuments' = HasType(d, "document")
  /\ hasTextUnits' = HasType(d, "textunit")
  /\ hasCommunities' = HasType(d, "community")
  /\ hasCovariates' = HasType(d, "covariate")
  /\ DataEffects(d)
  /\ UNCHANGED viewVars
  /\ lastOp' = [op |-> "dataChange"]
  /\ UNCHANGED <<showHighlight, clockVars>>
  /\ UNCHANGED <<flagVars, hlVars, searchVars, mounted>>

(***************************************************************************)
(* Progressive reveal: one animation frame runs every callback that was    *)
(* requested before it, in request order.                                  *)
(***************************************************************************)
\* addNodes, run for the loops of queue from position i on; acc is
\* <<visibleNodes, callbacks requested for the next frame>>
RECURSIVE RunAddNodes(_, _, _)
RunAddNodes(queue, i, acc) ==
  IF i > Len(queue) THEN acc
  ELSE LET loop == queue[i]
           nextNodes == Slice(loop.nodes, loop.currentIndex,
                              loop.currentIndex + chunkSize)
           idx == loop.currentIndex + chunkSize
           visible == IF mounted THEN acc[1] \o nextNodes ELSE acc[1]
           again == IF idx < Len(loop.nodes)
                      THEN Append(acc[2], RevealLoop(loop.nodes, idx))
                      ELSE acc[2]
       IN  RunAddNodes(queue, i + 1, <<visible, again>>)

AnimationFrame ==
  /\ rafQueue # <<>>
  /\ LET r == RunAddNodes(rafQueue, 1, <<visibleNodes, <<>> >>)
     IN  /\ visibleNodes' = IF mounted THEN r[1] ELSE visibleNodes
         /\ rafQueue' = r[2]
  /\ UNCHANGED viewVars
  /\ lastOp' = [op |-> "animationFrame"]
  /\ UNCHANGED <<showHighlight, clockVars>>
  /\ UNCHANGED <<propVars, hlVars, storeVars, searchVars, offloadVars, mounted>>

(***************************************************************************)
(* Layout offload.                                                         *)
(***************************************************************************)
RemoveAt(seq, i) == SubSeq(seq, 1, i - 1) \o SubSeq(seq, i + 1, Len(seq))

\* worker.onmessage of the i-th pending worker with event.data = response,
\* then the re-run of the offload effect that the change of workerRunning
\* causes
WorkerMessageWith(i, response) ==
  /\ i \in 1..Len(workers)
  /\ IF mounted
       THEN /\ graphData' = response
            /\ IF ShouldOffload(data, FALSE)
                 THEN /\ workers' = Append(RemoveAt(workers, i), Worker(data))
                      /\ workerRunning' = TRUE
                 ELSE /\ workers' = RemoveAt(workers, i)
                      /\ workerRunning' = FALSE
       ELSE /\ workers' = RemoveAt(workers, i)
            /\ UNCHANGED <<graphData, workerRunning>>
  /\ UNCHANGED viewVars
  /\ lastOp' = [op |-> "workerMessage", submitted |-> workers[i].data.ver,
                response |-> response]
  /\ UNCHANGED <<showHighlight, clockVars>>
  /\ UNCHANGED <<propVars, hlVars, initialGraphData, searchVars, revealVars,
                 mounted>>

\* the background task answers with a position for every node
WorkerMessage(i) ==
  /\ i \in 1..Len(workers)
  /\ WorkerMessageWith(i, WorkerResult(workers[i].data))

\* the background task fails: the worker has no onerror handler
WorkerError(i) ==
  /\ i \in 1..Len(workers)
  /\ workers' = RemoveAt(workers, i)
  /\ UNCHANGED viewVars
  /\ lastOp' = [op |-> "workerError"]
  /\ UNCHANGED <<showHighlight, clockVars>>
  /\ UNCHANGED <<propVars, hlVars, storeVars, searchVars, workerRunning,
                 revealVars, mounted>>

\* the component is unmounted: no effect of the component has a cleanup that
\* stops the worker or the reveal loop
Unmount ==
  /\ mounted
  /\ mounted' = FALSE
  /\ UNCHANGED viewVars
  /\ lastOp' = [op |-> "unmount"]
  /\ UNCHANGED <<showHighlight, clockVars>>
  /\ UNCHANGED <<propVars, hlVars, storeVars, searchVars, offloadVars,
                 revealVars>>

(***************************************************************************)
(* Category checkboxes and the API search drawer.                          *)
(***************************************************************************)
Null == [kind |-> "null"]

\* what a handler observed when it ran
Observed(op) ==
  [op |-> op, includeTextUnits |-> includeTextUnits,
   includeCovariates |-> includeCovariates]

\* a checkbox is disabled={!hasX || apiSearchResults !== null}
CheckboxEnabled(hasCategory) == hasCategory /\ apiSearchResults = Null

ToggleDocuments ==
  /\ mounted
  /\ CheckboxEnabled(hasDocuments)
  /\ includeDocuments' = ~includeDocuments
  /\ UNCHANGED viewVars
  /\ lastOp' = Observed("toggleDocuments")
  /\ UNCHANGED <<showHighlight, clockVars>>
  /\ UNCHANGED <<data, includeTextUnits, includeCommunities, includeCovariates,
                 hasVars, hlVars, storeVars, searchVars, offloadVars,
                 revealVars, mounted>>

\* the onChange of "Include Text Units" as plain negation
TextUnitsOnChangeNoDependency ==
  /\ includeTextUnits' = ~includeTextUnits
  /\ UNCHANGED includeCovariates
\* the onChange of "Include Text Units"
TextUnitsOnChange ==
  IF ~includeTextUnits
    THEN /\ includeTextUnits' = TRUE
         /\ UNCHANGED includeCovariates
    ELSE IF includeTextUnits /\ ~includeCovariates
      THEN /\ includeTextUnits' = FALSE
           /\ UNCHANGED includeCovariates
      ELSE /\ includeTextUnits' = FALSE
           /\ includeCovariates' = FALSE

ToggleTextUnits ==
  /\ mounted
  /\ CheckboxEnabled(hasTextUnits)
  /\ TextUnitsOnChange
  /\ UNCHANGED viewVars
  /\ lastOp' = Observed("toggleTextUnits")
  /\ UNCHANGED <<showHighlight, clockVars>>
  /\ UNCHANGED <<data, includeDocuments, includeCommunities, hasVars, hlVars,
                 storeVars, searchVars, offloadVars, revealVars, mounted>>

ToggleCommunities ==
  /\ mounted
  /\ CheckboxEnabled(hasCommunities)
  /\ includeCommunities' = ~includeCommunities
  /\ UNCHANGED viewVars
  /\ lastOp' = Observed("toggleCommunities")
  /\ UNCHANGED <<showHighlight, clockVars>>
  /\ UNCHANGED <<data, includeDocuments, includeTextUnits, includeCovariates,
                 hasVars, hlVars, storeVars, searchVars, offloadVars,
                 revealVars, mounted>>

\* the onChange of "Include Covariates" as plain negation
CovariatesOnChangeNoDependency ==
  /\ includeCovariates' = ~includeCovariates
  /\ UNCHANGED includeTextUnits
\* the onChange of "Include Covariates"
CovariatesOnChange ==
  IF ~includeCovariates
    THEN /\ includeTextUnits' = (IF ~includeTextUnits THEN TRUE ELSE includeTextUnits)
         /\ includeCovariates' = TRUE
    ELSE /\ includeCovariates' = FALSE
         /\ UNCHANGED includeTextUnits

ToggleCovariates ==
  /\ mounted
  /\ CheckboxEnabled(hasCovariates)
  /\ CovariatesOnChange
  /\ UNCHANGED viewVars
  /\ lastOp' = Observed("toggleCovariates")
  /\ UNCHANGED <<showHighlight, clockVars>>
  /\ UNCHANGED <<data, includeDocuments, includeCommunities, hasVars, hlVars,
                 storeVars, searchVars, offloadVars, revealVars, mounted>>

toggleApiDrawer(open) ==
  /\ mounted
  /\ IF open
       THEN /\ includeTextUnits' = TRUE
            /\ includeCommunities' = TRUE
            /\ includeCovariates' = (IF hasCovariates THEN TRUE ELSE includeCovariates)
       ELSE UNCHANGED <<includeTextUnits, includeCommunities, includeCovariates>>
  /\ apiDrawerOpen' = open
  /\ UNCHANGED viewVars
  /\ lastOp' = Observed("toggleApiDrawer")
  /\ UNCHANGED <<showHighlight, clockVars>>
  /\ UNCHANGED <<data, includeDocuments, hasVars, hlVars, storeVars,
                 apiSearchResults, pendingSearches, offloadVars, revealVars,
                 mounted>>

(***************************************************************************)
(* Hover handlers. A highlighted element is a reference to a node or link  *)
(* object: the dataset it belongs to and its id.                           *)
(***************************************************************************)
NodeRef(ds, id) == [ds |-> ds, id |-> id]
LinkRef(ds, lid) == [ds |-> ds, lid |-> lid]

\* the sets handleNodeHover builds for a node (empty for null)
NodeHoverNodes(node) ==
  IF node = Null THEN {}
  ELSE {NodeRef(node.ds, node.id)}
         \cup {NodeRef(node.ds, node.neighbors[i]) : i \in 1..Len(node.neighbors)}
NodeHoverLinksKeeping(node) ==
  IF node = Null THEN {}
  ELSE highlightLinks \cup {LinkRef(node.ds, node.links[i]) : i \in 1..Len(node.links)}
NodeHoverLinks(node) ==
  IF node = Null THEN {}
  ELSE {LinkRef(node.ds, node.links[i]) : i \in 1..Len(node.links)}

\* the sets handleLinkHover builds for a link (empty for null): an endpoint
\* is added unless typeof says "string"
LinkHoverNodes(link) ==
  IF link = Null THEN {}
  ELSE {NodeRef(link.ds, e.node) : e \in {x \in {link.source, link.target} : x.kind # "string"}}
LinkHoverLinks(link) ==
  IF link = Null THEN {} ELSE {LinkRef(link.ds, link.lid)}

\* the last two entries of the recomputation history, with t appended
Recorded(times, t) ==
  IF Len(times) < 2 THEN Append(times, t) ELSE <<times[2], t>>

handleNodeHover(node) ==
  /\ highlightNodes' = NodeHoverNodes(node)
  /\ highlightLinks' = NodeHoverLinks(node)
  /\ hoverNode' = IF node = Null THEN Null ELSE NodeRef(node.ds, node.id)

handleLinkHover(link) ==
  /\ highlightNodes' = LinkHoverNodes(link)
  /\ highlightLinks' = LinkHoverLinks(link)
  /\ UNCHANGED hoverNode

\* onNodeHover={showHighlight ? handleNodeHover : undefined}: the surface
\* reports the rendered node under the pointer, or null
NodeHover(node) ==
  /\ mounted
  /\ showHighlight
  /\ node = Null \/ node \in Range(renderedGraphData.nodes)
  /\ handleNodeHover(node)
  /\ recomputeTimes' = Recorded(recomputeTimes, now)
  /\ UNCHANGED viewVars
  /\ lastOp' = [op |-> "nodeHover", target |-> node]
  /\ UNCHANGED <<propVars, storeVars, searchVars, offloadVars, revealVars,
                 mounted, showHighlight, now>>

\* onLinkHover={showHighlight ? handleLinkHover : undefined}
LinkHover(link) ==
  /\ mounted
  /\ showHighlight
  /\ link = Null \/ link \in Range(renderedGraphData.links)
  /\ handleLinkHover(link)
  /\ UNCHANGED viewVars
  /\ lastOp' = [op |-> "linkHover", target |-> link]
  /\ UNCHANGED <<propVars, storeVars, searchVars, offloadVars, revealVars,
                 mounted, showHighlight, clockVars>>

\* the "Show Highlight" switch
ToggleShowHighlight ==
  /\ mounted
  /\ showHighlight' = ~showHighlight
  /\ UNCHANGED viewVars
  /\ lastOp' = [op |-> "toggleShowHighlight"]
  /\ UNCHANGED <<propVars, hlVars, storeVars, searchVars, offloadVars,
                 revealVars, mounted, clockVars>>

\* time passes
Tick ==
  /\ now + TickMs <= MaxTime
  /\ now' = now + TickMs
  /\ UNCHANGED viewVars
  /\ lastOp' = [op |-> "tick"]
  /\ UNCHANGED <<propVars, hlVars, storeVars, searchVars, offloadVars,
                 revealVars, mounted, showHighlight, recomputeTimes>>

(***************************************************************************)
(* Focus from the search list, clicks, and the settle timers. All timers   *)
(* are set with the same delay, so they fire in the order they were set;   *)
(* the camera moves of the focus handlers are calls into the rendering     *)
(* surface and change no component state.                                  *)
(***************************************************************************)
\* the highlight links after node.links?.forEach(link => highlightLinks.add(link)):
\* the elements are added to the Set object held by the state
FocusLinks(node) == highlightLinks \cup NodeHoverLinks(node)

handleFocusButtonClickNoTimer(node) ==
  /\ highlightNodes' = NodeHoverNodes(node)
  /\ highlightLinks' = FocusLinks(node)
  /\ hoverNode' = NodeRef(node.ds, node.id)
  /\ UNCHANGED timers
  /\ rightDrawerOpen' = FALSE
handleFocusButtonClick(node) ==
  /\ highlightNodes' = NodeHoverNodes(node)
  /\ highlightLinks' = FocusLinks(node)
  /\ hoverNode' = NodeRef(node.ds, node.id)
  /\ timers' = Append(timers, [kind |-> "nodeHover", target |-> node])
  /\ rightDrawerOpen' = FALSE

handleFocusLinkClick(link) ==
  /\ highlightNodes' = LinkHoverNodes(link)
  /\ highlightLinks' = LinkHoverLinks(link)
  /\ UNCHANGED hoverNode
  /\ timers' = Append(timers, [kind |-> "linkHover", target |-> link])
  /\ rightDrawerOpen' = FALSE

\* the focus button of a node of the search list
FocusNode(node) ==
  /\ mounted
  /\ node \in Range(data.nodes)
  /\ handleFocusButtonClick(node)
  /\ lastOp' = [op |-> "focusNode", target |-> node]
  /\ UNCHANGED <<propVars, storeVars, searchVars, offloadVars, revealVars,
                 mounted, showHighlight, selectVars, graphZoom, panelVars,
                 clockVars>>

\* the focus button of a link of the search list
FocusLink(link) ==
  /\ mounted
  /\ link \in Range(data.links)
  /\ handleFocusLinkClick(link)
  /\ lastOp' = [op |-> "focusLink", target |-> link]
  /\ UNCHANGED <<propVars, storeVars, searchVars, offloadVars, revealVars,
                 mounted, showHighlight, selectVars, graphZoom, panelVars,
                 clockVars>>

\* the oldest setTimeout callback runs: handleNodeHover(node) or
\* handleLinkHover(link); a state setter of an unmounted component does
\* nothing
TimerFire ==
  /\ timers # <<>>
  /\ timers' = Tail(timers)
  /\ IF ~mounted THEN UNCHANGED hlVars
     ELSE IF Head(timers).kind = "nodeHover"
       THEN handleNodeHover(Head(timers).target)
       ELSE handleLinkHover(Head(timers).target)
  /\ lastOp' = [op |-> "timer", target |-> Head(timers).target]
  /\ UNCHANGED <<propVars, storeVars, searchVars, offloadVars, revealVars,
                 mounted, showHighlight, rightDrawerOpen, selectVars, graphZoom,
                 panelVars, clockVars>>

handleNodeClickClearing(node) ==
  /\ selectedRelationship' = Null
  /\ selectedNode' = NodeRef(node.ds, node.id)
  /\ linkedNodes' = [i \in 1..Len(node.neighbors) |-> NodeRef(node.ds, node.neighbors[i])]
  /\ linkedRelationships' = [i \in 1..Len(node.links) |-> LinkRef(node.ds, node.links[i])]
  /\ bottomDrawerOpen' = TRUE
  /\ highlightNodes' = {}
  /\ highlightLinks' = {}
  /\ hoverNode' = Null
handleNodeClick(node) ==
  /\ selectedRelationship' = Null
  /\ selectedNode' = NodeRef(node.ds, node.id)
  /\ linkedNodes' = [i \in 1..Len(node.neighbors) |-> NodeRef(node.ds, node.neighbors[i])]
  /\ linkedRelationships' = [i \in 1..Len(node.links) |-> LinkRef(node.ds, node.links[i])]
  /\ bottomDrawerOpen' = TRUE
  /\ UNCHANGED hlVars

\* data.nodes.find(node => node.id === id), as a list of zero or one node
FindById(nodes, id) ==
  LET hits == {i \in 1..Len(nodes) : nodes[i].id = id}
  IN  IF hits = {} THEN <<>>
      ELSE <<nodes[CHOOSE i \in hits : \A j \in hits : i <= j]>>
FindByIdRendered(id) == FindById(renderedGraphData.nodes, id)
FindByIdCanonical(id) == FindById(data.nodes, id)

handleLinkClick(link) ==
  LET sourceNode == FindByIdCanonical(EndpointId(link.source))
      targetNode == FindByIdCanonical(EndpointId(link.target))
  IN  /\ selectedNode' = Null
      /\ selectedRelationship' = LinkRef(link.ds, link.lid)
      /\ IF sourceNode # <<>> /\ targetNode # <<>>
           THEN /\ linkedNodes' = <<NodeRef(sourceNode[1].ds, sourceNode[1].id),
                                    NodeRef(targetNode[1].ds, targetNode[1].id)>>
                /\ linkedRelationships' = <<LinkRef(link.ds, link.lid)>>
                /\ bottomDrawerOpen' = TRUE
           ELSE UNCHANGED <<linkedNodes, linkedRelationships, bottomDrawerOpen>>
      /\ UNCHANGED hlVars

\* onNodeClick of the surface, or a node of the search list
NodeClick(node) ==
  /\ mounted
  /\ node \in Range(renderedGraphData.nodes) \cup Range(data.nodes)
  /\ handleNodeClick(node)
  /\ lastOp' = [op |-> "nodeClick", target |-> NodeRef(node.ds, node.id)]
  /\ UNCHANGED <<propVars, storeVars, searchVars, offloadVars, revealVars,
                 mounted, showHighlight, rightDrawerOpen, timers, graphZoom,
                 panelVars, clockVars>>

\* onLinkClick of the surface, or a link of the search list
LinkClick(link) ==
  /\ mounted
  /\ link \in Range(renderedGraphData.links) \cup Range(data.links)
  /\ handleLinkClick(link)
  /\ lastOp' = [op |-> "linkClick", target |-> link]
  /\ UNCHANGED <<propVars, storeVars, searchVars, offloadVars, revealVars,
                 mounted, showHighlight, rightDrawerOpen, timers, graphZoom,
                 panelVars, clockVars>>

(***************************************************************************)
(* Zoom and the level-of-detail clusterer.                                 *)
(***************************************************************************)
\* onZoom: setGraphZoom(zoom.k), k in hundredths
Zoom(k) ==
  /\ mounted
  /\ graphZoom' = k
  /\ lastOp' = [op |-> "zoom"]
  /\ UNCHANGED <<propVars, hlVars, storeVars, searchVars, offloadVars,
                 revealVars, mounted, showHighlight, rightDrawerOpen,
                 selectVars, timers, panelVars, clockVars>>

\* obj.degree > 2, false when obj has no degree
DegreeAboveTwo(obj) == "degree" \in DOMAIN obj /\ obj.degree > 2

\* the nodeVisibility accessor of the 2D surface
nodeVisibilityAlways(node) == TRUE
nodeVisibility(node) ==
  IF graphZoom < LowZoom THEN DegreeAboveTwo(node) ELSE TRUE

\* the node objects a resolved endpoint may be: the node of the data prop
\* (an endpoint the loader resolved) or its copy in optimizedNodes (an
\* endpoint the surface resolved against the node list it was given)
EndpointObjects(end) ==
  IF end.kind # "object" THEN {Null}
  ELSE {node \in Range(data.nodes) \cup Range(optimizedNodes) : node.id = end.node}

\* the linkVisibility accessor of the 2D surface, source and target being
\* the objects link.source and link.target hold
linkVisibility(link, source, target) ==
  IF graphZoom < LowZoom
    THEN /\ link.source.kind = "object"
         /\ link.target.kind = "object"
         /\ (DegreeAboveTwo(source) \/ DegreeAboveTwo(target))
    ELSE TRUE

\* Math.round(v / threshold): the nearest integer, halves upwards
RoundDiv(v, threshold) == (2 * v + threshold) \div (2 * threshold)

\* `${Math.round(node.x / threshold)},${Math.round(node.y / threshold)}`
clusterKey(node, threshold) ==
  <<RoundDiv(node.x, threshold), RoundDiv(node.y, threshold)>>

\* the keys of the clusters object in insertion order
RECURSIVE ClusterKeys(_, _, _)
ClusterKeys(nodes, threshold, i) ==
  IF i > Len(nodes) THEN <<>>
  ELSE LET rest == ClusterKeys(nodes, threshold, i + 1)
           key == clusterKey(nodes[i], threshold)
           notKey(k) == k # key
       IN  <<key>> \o SelectSeq(rest, notKey)

\* `cluster-${cluster.map(n => n.id).join('-')}`: the member ids in the
\* order of the member list
ClusterId(cluster) == [cluster |-> [i \in 1..Len(cluster) |-> cluster[i].id]]

\* the element made of one cluster: the node itself, or a cluster node
ClusterElementAlways(cluster) ==
  [id |-> ClusterId(cluster), type |-> "cluster", cluster |-> TRUE,
   nodes |-> cluster]
ClusterElement(cluster) ==
  IF Len(cluster) = 1 THEN cluster[1]
  ELSE [id |-> ClusterId(cluster), type |-> "cluster", cluster |-> TRUE,
        nodes |-> cluster]

clusterNodes(nodes, threshold) ==
  LET keys == ClusterKeys(nodes, threshold, 1)
      members(k) ==
        LET inCell(node) == clusterKey(node, threshold) = k
        IN  SelectSeq(nodes, inCell)
  IN  [c \in 1..Len(keys) |-> ClusterElement(members(keys[c]))]

clusteredData ==
  [nodes |-> IF graphZoom < LowZoom THEN clusterNodes(data.nodes, clusterThreshold)
             ELSE data.nodes,
   links |-> data.links]

(***************************************************************************)
(* Remote search and the external-result mapper. A response is             *)
(* {context_data: {key: [item, ...], ...}}; context_data is the sequence   *)
(* of its entries in Object.entries order.                                 *)
(***************************************************************************)
Item(id, text) == [id |-> id, text |-> text]
Entry(key, items) == [key |-> key, items |-> items]
Response(hasContext, entries) == [hasContext |-> hasContext, context_data |-> entries]

\* value?.toString()
OptToStr(val) == IF val.t = "undefined" THEN val ELSE ToStr(val)

\* the callbacks of find, per key
RelationshipMatch(link, item) ==
  OptToStr(link.human_readable_id) = ToStr(item.id)
EntityMatchAnyNode(node, item) ==
  OptToStr(node.human_readable_id) = ToStr(item.id)
EntityMatch(node, item) ==
  OptToStr(node.human_readable_id) = ToStr(item.id) /\ ~node.covariate_type
ReportMatch(node, item) == node.uuid = ToStr(item.id)
SourceMatch(node, item) == OptToStr(node.text) = item.text
CovariateMatch(node, item) ==
  OptToStr(node.human_readable_id) = ToStr(item.id) /\ node.covariate_type

NodeMatch(key, node, item) ==
  CASE key = "entities" -> EntityMatch(node, item)
    [] key = "reports" -> ReportMatch(node, item)
    [] key = "sources" -> SourceMatch(node, item)
    [] key = "covariates" \/ key = "claims" -> CovariateMatch(node, item)
    [] OTHER -> FALSE

\* item.id.toString() raises a TypeError when the item has no id; find calls
\* its callback only when the searched array has an element
ItemThrows(key, item, base) ==
  /\ item.id.t = "undefined"
  /\ \/ key = "relationships" /\ base.links # <<>>
     \/ key \in {"entities", "reports", "covariates", "claims"} /\ base.nodes # <<>>

\* Array.prototype.find: the first match, as a list of zero or one element
FindLink(base, item) ==
  LET hits == {i \in 1..Len(base.links) : RelationshipMatch(base.links[i], item)}
  IN  IF hits = {} THEN <<>>
      ELSE <<base.links[CHOOSE i \in hits : \A j \in hits : i <= j]>>
FindNode(base, key, item) ==
  LET hits == {i \in 1..Len(base.nodes) : NodeMatch(key, base.nodes[i], item)}
  IN  IF hits = {} THEN <<>>
      ELSE <<base.nodes[CHOOSE i \in hits : \A j \in hits : i <= j]>>

\* items.forEach of one entry, from item i on; acc is the mapper's
\* [threw, newNodes, newLinks]
RECURSIVE MapItems(_, _, _, _, _)
MapItems(base, key, items, i, acc) ==
  IF acc.threw \/ i > Len(items) THEN acc
  ELSE LET item == items[i]
           next ==
             IF ItemThrows(key, item, base) THEN [acc EXCEPT !.threw = TRUE]
             ELSE IF key = "relationships"
               THEN [acc EXCEPT !.newLinks = @ \o FindLink(base, item)]
               ELSE [acc EXCEPT !.newNodes = @ \o FindNode(base, key, item)]
       IN  MapItems(base, key, items, i + 1, next)

\* Object.entries(contextData).forEach, from entry e on
RECURSIVE MapEntries(_, _, _, _)
MapEntries(base, entries, e, acc) ==
  IF acc.threw \/ e > Len(entries) THEN acc
  ELSE MapEntries(base, entries, e + 1,
                  MapItems(base, entries[e].key, entries[e].items, 1, acc))

\* updateGraphData up to its setGraphData call
MapContext(base, entries) ==
  MapEntries(base, entries, 1, [threw |-> FALSE, newNodes |-> <<>>, newLinks |-> <<>>])

\* updateGraphData(contextData), called from handleApiSearch's try block:
\* the resulting graphData and whether the call raised
updateGraphDataFromDisplayed(response) ==
  IF ~response.hasContext THEN [outcome |-> "ok", graphData |-> graphData]
  ELSE LET r == MapContext(graphData, response.context_data)
       IN  IF r.threw THEN [outcome |-> "threw", graphData |-> graphData]
           ELSE [outcome |-> "ok",
                 graphData |-> [nodes |-> r.newNodes, links |-> r.newLinks]]
updateGraphData(response) ==
  IF ~response.hasContext THEN [outcome |-> "ok", graphData |-> graphData]
  ELSE LET r == MapContext(initialGraphData, response.context_data)
       IN  IF r.threw THEN [outcome |-> "threw", graphData |-> graphData]
           ELSE [outcome |-> "ok",
                 graphData |-> [nodes |-> r.newNodes, links |-> r.newLinks]]

\* handleApiSearch up to its await
ApiSearchStart(maxPending) ==
  /\ mounted
  /\ Len(pendingSearches) < maxPending
  /\ pendingSearches' = Append(pendingSearches, [query |-> "query"])
  /\ UNCHANGED viewVars
  /\ lastOp' = [op |-> "apiSearchStart"]
  /\ UNCHANGED <<propVars, hlVars, storeVars, apiSearchResults, apiDrawerOpen,
                 offloadVars, revealVars, mounted, showHighlight, clockVars>>

\* the awaited call of the i-th pending search resolves with response;
\* pendingSearches is in the order of the calls, so i - 1 searches issued
\* earlier are still pending
ApiSearchResolve(i, response) ==
  /\ i \in 1..Len(pendingSearches)
  /\ pendingSearches' = RemoveAt(pendingSearches, i)
  /\ LET r == updateGraphData(response)
     IN  /\ apiSearchResults' = IF mounted THEN response ELSE apiSearchResults
         /\ graphData' = IF mounted THEN r.graphData ELSE graphData
         /\ UNCHANGED viewVars
         /\ lastOp' = [op |-> "apiSearch", outcome |-> r.outcome,
                       before |-> graphData, earlier |-> i - 1]
  /\ UNCHANGED <<propVars, hlVars, initialGraphData, apiDrawerOpen, offloadVars,
                 revealVars, mounted, showHighlight, clockVars>>

\* the awaited call rejects: the catch block logs
ApiSearchReject(i) ==
  /\ i \in 1..Len(pendingSearches)
  /\ pendingSearches' = RemoveAt(pendingSearches, i)
  /\ UNCHANGED viewVars
  /\ lastOp' = [op |-> "apiSearch", outcome |-> "rejected",
                before |-> graphData, earlier |-> i - 1]
  /\ UNCHANGED <<propVars, hlVars, storeVars, apiSearchResults, apiDrawerOpen,
                 offloadVars, revealVars, mounted, showHighlight, clockVars>>

(***************************************************************************)
(* The fuzzy search list. The index is built over [...data.nodes,          *)
(* ...data.links]; its scoring is the library's, so a search returns any   *)
(* ranked list of distinct indexed elements.                               *)
(***************************************************************************)
\* the documents of new Fuse([...data.nodes, ...data.links], ...)
FuseDocuments(d) == Range(d.nodes) \cup Range(d.links)

\* the lists fuse.search(term).map(result => result.item) may return, of at
\* most maxResults elements
FuseResults(d, maxResults) ==
  {results \in UNION {[1..n -> FuseDocuments(d)] : n \in 0..maxResults} :
     \A i, j \in DOMAIN results : i # j => results[i] # results[j]}

\* results.filter(item => "neighbors" in item)
nodeResults(results) ==
  SelectSeq(results, LAMBDA item : "neighbors" \in DOMAIN item)

\* results.filter(item => "source" in item && "target" in item)
linkResults(results) ==
  SelectSeq(results, LAMBDA item : "source" \in DOMAIN item /\ "target" \in DOMAIN item)

handleSearchRanked(results) ==
  /\ searchResults' = results
  /\ rightDrawerOpen' = TRUE
handleSearch(results) ==
  /\ searchResults' = nodeResults(results) \o linkResults(results)
  /\ rightDrawerOpen' = TRUE

\* the search button of the search list, the index answering with results
Search(results) ==
  /\ mounted
  /\ handleSearch(results)
  /\ lastOp' = [op |-> "search", results |-> results]
  /\ UNCHANGED <<propVars, hlVars, storeVars, searchVars, offloadVars,
                 revealVars, mounted, showHighlight, selectVars, timers,
                 graphZoom, serverUp, statusProbe, clockVars>>

\* handleLinkClick of the search list, for a link the list holds
ListLinkClick(link) ==
  /\ mounted
  /\ link \in Range(searchResults)
  /\ "source" \in DOMAIN link
  /\ handleLinkClick(link)
  /\ lastOp' = [op |-> "linkClick", target |-> link]
  /\ UNCHANGED <<propVars, storeVars, searchVars, offloadVars, revealVars,
                 mounted, showHighlight, rightDrawerOpen, timers, graphZoom,
                 panelVars, clockVars>>

\* toggleDrawer(open)(): the search list panel is opened or closed
toggleDrawer(open) ==
  /\ mounted
  /\ rightDrawerOpen' = open
  /\ lastOp' = [op |-> "toggleDrawer", open |-> open]
  /\ UNCHANGED <<propVars, hlVars, storeVars, searchVars, offloadVars,
                 revealVars, mounted, showHighlight, selectVars, timers,
                 graphZoom, panelVars, clockVars>>

(***************************************************************************)
(* The status probe, started once by the mount effect. Its awaited call    *)
(* settles with result: resolved with an object that has a status string,  *)
(* resolved with an object without one or with nothing at all, or          *)
(* rejected.                                                               *)
(***************************************************************************)
\* the success sentinel
ServerUpStatus == "Server is up and running"

ProbeResolved(status) == [kind |-> "resolved", status |-> status]
ProbeNoStatus == [kind |-> "noStatus", status |-> ""]
ProbeUndefined == [kind |-> "undefined", status |-> ""]
ProbeRejected == [kind |-> "rejected", status |-> ""]

\* the value checkServerStatus passes to setServerUp: reading status of an
\* undefined response raises inside the try block and ends in the catch
\* block, as a rejection does
checkServerStatusAnyStatus(result) == result.kind = "resolved"
checkServerStatus(result) ==
  CASE result.kind = "resolved" -> result.status = ServerUpStatus
    [] result.kind = "noStatus" -> FALSE
    [] OTHER -> FALSE

\* the awaited agent.Status.check() settles
StatusProbeSettles(result) ==
  /\ statusProbe.state = "pending"
  /\ statusProbe' = [state |-> "done", result |-> result]
  /\ serverUp' = IF mounted THEN checkServerStatus(result) ELSE serverUp
  /\ lastOp' = [op |-> "statusProbe", result |-> result]
  /\ UNCHANGED <<propVars, hlVars, storeVars, searchVars, offloadVars,
                 revealVars, mounted, showHighlight, rightDrawerOpen,
                 selectVars, timers, graphZoom, searchResults, clockVars>>

(***************************************************************************)
(* The state after the component has mounted with data d.                  *)
(***************************************************************************)
Mounted(d) ==
  /\ data = d
  /\ hasDocuments = HasType(d, "document")
  /\ hasTextUnits = HasType(d, "textunit")
  /\ hasCommunities = HasType(d, "community")
  /\ hasCovariates = HasType(d, "covariate")
  /\ highlightNodes = {}
  /\ highlightLinks = {}
  /\ hoverNode = Null
  /\ graphData = d
  /\ initialGraphData = d
  /\ apiSearchResults = Null
  /\ apiDrawerOpen = FALSE
  /\ pendingSearches = <<>>
  /\ workerRunning = ShouldOffload(d, FALSE)
  /\ workers = IF ShouldOffload(d, FALSE) THEN <<Worker(d)>> ELSE <<>>
  /\ visibleNodes = <<>>
  /\ rafQueue = <<RevealLoop(d.nodes, 0)>>
  /\ mounted = TRUE
  /\ showHighlight = TRUE
  /\ rightDrawerOpen = FALSE
  /\ bottomDrawerOpen = FALSE
  /\ selectedNode = Null
  /\ selectedRelationship = Null
  /\ linkedNodes = <<>>
  /\ linkedRelationships = <<>>
  /\ timers = <<>>
  /\ graphZoom = InitialZoom
  /\ searchResults = <<>>
  /\ serverUp = FALSE
  /\ statusProbe = [state |-> "pending"]
  /\ now = 0
  /\ recomputeTimes = <<>>
  /\ lastOp = [op |-> "mount"]

AnyFlags ==
  /\ includeDocuments \in BOOLEAN
  /\ includeTextUnits \in BOOLEAN
  /\ includeCommunities \in BOOLEAN
  /\ includeCovariates \in BOOLEAN

AllFlagsOn ==
  /\ includeDocuments = TRUE
  /\ includeTextUnits = TRUE
  /\ includeCommunities = TRUE
  /\ includeCovariates = TRUE

(***************************************************************************)
(* Category filter: every dataset of NumFilterNodes nodes of any types     *)
(* with at most one link between any two ids (one of them absent), raw or  *)
(* resolved, under every flag combination, and the category checkboxes.    *)
(***************************************************************************)
FilterNodeIds == 1..NumFilterNodes

FilterEnds == {RawEnd(i) : i \in 1..(NumFilterNodes + 1)}
                \cup {ObjEnd(i) : i \in 1..(NumFilterNodes + 1)}

FilterLinkLists ==
  {<<>>} \cup {<<MkLink(0, 1, s, t, JsNum(1))>> : s \in FilterEnds, t \in FilterEnds}

FilterNodeList(types) ==
  [i \in FilterNodeIds |->
     MkNode(0, i, types[i], JsNum(i), JsStr(i), types[i] = "COVARIATE",
            JsUndef, <<>>, <<>>, i, i)]

FilterDatasets ==
  {MkData(0, FilterNodeList(types), links) :
     types \in [FilterNodeIds -> NodeTypes], links \in FilterLinkLists}

InitFilter == AnyFlags /\ \E d \in FilterDatasets : Mounted(d)

NextFilter ==
  \/ ToggleDocuments
  \/ ToggleTextUnits
  \/ ToggleCommunities
  \/ ToggleCovariates

SpecFilter == InitFilter /\ [][NextFilter]_vars

\* C1: each link of the Category Filter's output has its source id and its
\* target id among the ids of the filter's output nodes, for every flag
\* combination and dataset, raw or resolved endpoints alike.
NoDanglingLinks ==
  LET out == filteredGraphData
      ids == {out.nodes[i].id : i \in 1..Len(out.nodes)}
  IN  \A i \in 1..Len(out.links) :
        /\ EndpointId(out.links[i].source) \in ids
        /\ EndpointId(out.links[i].target) \in ids

\* a link with one raw and one resolved endpoint survives a filter that hides
\* some node
NoDanglingLinksWitness ==
  /\ Len(filteredGraphData.links) = 1
  /\ Len(filteredGraphData.nodes) < Len(data.nodes)
  /\ filteredGraphData.links[1].source.kind = "object"
  /\ filteredGraphData.links[1].target.kind = "string"
  /\ lastOp.op = "toggleCommunities"

\* C2: toggling the text-units checkbox while text-units and covariates are
\* both enabled leaves both disabled; toggling the covariates checkbox while
\* both are disabled leaves both enabled.
CategoryDependencyAtToggle ==
  /\ (/\ lastOp.op = "toggleTextUnits"
      /\ lastOp.includeTextUnits
      /\ lastOp.includeCovariates) => (~includeTextUnits /\ ~includeCovariates)
  /\ (/\ lastOp.op = "toggleCovariates"
      /\ ~lastOp.includeTextUnits
      /\ ~lastOp.includeCovariates) => (includeTextUnits /\ includeCovariates)

\* the text-units checkbox was toggled while both categories were enabled
CategoryDependencyWitness ==
  /\ lastOp.op = "toggleTextUnits"
  /\ lastOp.includeTextUnits
  /\ lastOp.includeCovariates
  /\ ~includeTextUnits

\* the covariates checkbox was toggled while both categories were disabled
CategoryDependencyWitnessEnable ==
  /\ lastOp.op = "toggleCovariates"
  /\ ~lastOp.includeTextUnits
  /\ ~lastOp.includeCovariates
  /\ includeCovariates

(***************************************************************************)
(* Progressive reveal and layout offload: generated datasets of SmallSize, *)
(* MediumSize and LargeSize nodes replace one another while animation      *)
(* frames run, respectively while the background layout task answers.      *)
(***************************************************************************)
BulkNodeList(ver, n) ==
  [i \in 1..n |->
     MkNode(ver, i, "PERSON", JsNum(i), JsStr(i), FALSE, JsUndef, <<>>, <<>>,
            i, i)]

BulkDatasets(ver, sizes) ==
  {MkData(ver, BulkNodeList(ver, n), <<>>) : n \in sizes}

\* progressive reveal: datasets at or below the offload threshold
RevealSizes == {SmallSize, MediumSize}

InitReveal == AllFlagsOn /\ \E d \in BulkDatasets(0, RevealSizes) : Mounted(d)

NextReveal ==
  \/ \E d \in BulkDatasets(data.ver + 1, RevealSizes) : DataChange(d)
  \/ AnimationFrame

SpecReveal == InitReveal /\ [][NextReveal]_vars

\* layout offload: datasets on both sides of the offload threshold
OffloadSizes == {SmallSize, MediumSize, LargeSize}

InitOffload == AllFlagsOn /\ \E d \in BulkDatasets(0, OffloadSizes) : Mounted(d)

NextOffload ==
  \/ \E d \in BulkDatasets(data.ver + 1, OffloadSizes) : DataChange(d)
  \/ \E i \in 1..Len(workers) : WorkerMessage(i)

SpecOffload == InitOffload /\ [][NextOffload]_vars

\* the same with a failing background task and the teardown of the component
NextOffloadFail ==
  \/ \E d \in BulkDatasets(data.ver + 1, OffloadSizes) : DataChange(d)
  \/ \E i \in 1..Len(workers) : WorkerMessage(i)
  \/ \E i \in 1..Len(workers) : WorkerError(i)
  \/ Unmount

SpecOffloadFail == InitOffload /\ [][NextOffloadFail]_vars

\* C3: once every pending animation-frame callback has run, the visible node
\* list equals the node list of the current snapshot (each node once, in the
\* snapshot's order), also when the snapshot arrived while the loop of the
\* previous one still had steps scheduled.
RevealSettlesOnCurrentSnapshot ==
  rafQueue = <<>> => visibleNodes = data.nodes

\* C4: at most one offload worker is in flight at any time, and workerRunning
\* is false once every submitted offload has resolved.
SingleOffloadSlot ==
  /\ Len(workers) <= 1
  /\ workers = <<>> => ~workerRunning

\* a large dataset arrived while the offload of the previous one was in flight
\* and was not submitted
SingleOffloadSlotWitness ==
  /\ lastOp.op = "dataChange"
  /\ Len(data.nodes) > OffloadThreshold
  /\ Len(workers) = 1
  /\ workers[1].data.ver < data.ver

\* the offload of a dataset resolved after a small dataset had replaced it
SingleOffloadSlotWitnessResolved ==
  /\ lastOp.op = "workerMessage"
  /\ workers = <<>>
  /\ ~workerRunning
  /\ data.ver > 0

\* C30: the completion of the offload that was submitted for the current
\* dataset does not submit that dataset again: right after it, no offload of
\* the current dataset version is in flight and the in-flight flag is clear.
OffloadSubmittedOnce ==
  (lastOp.op = "workerMessage" /\ lastOp.submitted = data.ver)
    => /\ \A i \in 1..Len(workers) : workers[i].data.ver # data.ver
       /\ ~workerRunning

\* C31: once a newer dataset has arrived, the displayed snapshot is never
\* overwritten with the nodes of an earlier dataset: the graph data and its
\* nodes belong to the current dataset version.
StaleOffloadNeverApplied ==
  /\ graphData.ver = data.ver
  /\ graphData.nodes # <<>> => graphData.nodes[1].ds = data.ver

\* C5: if the background layout task errors, or the component is torn down
\* before the task responds, workerRunning is still cleared: no offload in
\* flight implies the flag is false.
OffloadGateReleased ==
  workers = <<>> => ~workerRunning

(***************************************************************************)
(* Highlight: a small graph with a text unit and a covariate is hovered    *)
(* while time passes (SpecHoverTiming), respectively while the two         *)
(* categories are toggled and the dataset is replaced (SpecHighlight).     *)
(***************************************************************************)
HoverNode(ver, i, type, neighbors, links) ==
  MkNode(ver, i, type, JsNum(i), JsStr(i), type = "COVARIATE", JsUndef,
         neighbors, links, i, i)

\* 1 - 2, 1 - 3 (text unit), 3 - 4 (covariate)
StarGraph(ver) ==
  MkData(ver,
         <<HoverNode(ver, 1, "PERSON", <<2, 3>>, <<1, 2>>),
           HoverNode(ver, 2, "PERSON", <<1>>, <<1>>),
           HoverNode(ver, 3, "TextUnit", <<1, 4>>, <<2, 3>>),
           HoverNode(ver, 4, "COVARIATE", <<3>>, <<3>>)>>,
         <<MkLink(ver, 1, ObjEnd(1), ObjEnd(2), JsNum(1)),
           MkLink(ver, 2, ObjEnd(1), ObjEnd(3), JsNum(2)),
           MkLink(ver, 3, RawEnd(3), RawEnd(4), JsNum(3))>>)

\* 1 - 2 only
PairGraph(ver) ==
  MkData(ver,
         <<HoverNode(ver, 1, "PERSON", <<2>>, <<1>>),
           HoverNode(ver, 2, "PERSON", <<1>>, <<1>>)>>,
         <<MkLink(ver, 1, ObjEnd(1), ObjEnd(2), JsNum(1))>>)

HoverDatasets(ver) == {StarGraph(ver), PairGraph(ver)}

InitHover == AllFlagsOn /\ \E d \in HoverDatasets(0) : Mounted(d)

NextHoverTiming ==
  \/ \E node \in Range(renderedGraphData.nodes) \cup {Null} : NodeHover(node)
  \/ \E link \in Range(renderedGraphData.links) \cup {Null} : LinkHover(link)
  \/ ToggleShowHighlight
  \/ Tick

SpecHoverTiming == InitHover /\ [][NextHoverTiming]_vars

NextHighlight ==
  \/ \E node \in Range(renderedGraphData.nodes) \cup {Null} : NodeHover(node)
  \/ \E link \in Range(renderedGraphData.links) \cup {Null} : LinkHover(link)
  \/ ToggleTextUnits
  \/ ToggleCovariates
  \/ \E d \in HoverDatasets(data.ver + 1) : DataChange(d)

SpecHighlight == InitHover /\ [][NextHighlight]_vars

\* C6: node-hover events are rate-limited: hover events inside one 100ms
\* window cause one HighlightSet recomputation, so two successive
\* recomputations are at least 100ms apart.
HoverCoalesced ==
  Len(recomputeTimes) = 2 => recomputeTimes[2] - recomputeTimes[1] >= HoverWait

\* C10: every node of the highlight node set is a node of the rendered
\* subgraph and every link of the highlight link set is a rendered link
\* (elements compared by id).
HighlightWithinRendered ==
  /\ \A h \in highlightNodes :
       \E i \in 1..Len(renderedGraphData.nodes) :
         renderedGraphData.nodes[i].id = h.id
  /\ \A h \in highlightLinks :
       \E i \in 1..Len(renderedGraphData.links) :
         renderedGraphData.links[i].lid = h.lid

(***************************************************************************)
(* Remote search: responses of at most MaxItems items against snapshots    *)
(* whose external ids repeat, are missing, or match nothing.               *)
(***************************************************************************)
\* covariate, person and community share the external id 1; the community
\* has uuid "1"; the text unit has text "1"; both links have external id 1
SharedIdGraph(ver) ==
  MkData(ver,
         <<MkNode(ver, 1, "COVARIATE", JsNum(1), JsStr(11), TRUE, JsUndef, <<>>, <<>>, 1, 1),
           MkNode(ver, 2, "PERSON", JsNum(1), JsStr(12), FALSE, JsUndef, <<3>>, <<1>>, 2, 2),
           MkNode(ver, 3, "community", JsStr(1), JsStr(1), FALSE, JsUndef, <<2>>, <<1>>, 3, 3),
           MkNode(ver, 4, "TextUnit", JsNum(4), JsStr(14), FALSE, JsStr(1), <<>>, <<>>, 4, 4)>>,
         <<MkLink(ver, 1, RawEnd(2), RawEnd(3), JsNum(1)),
           MkLink(ver, 2, RawEnd(2), RawEnd(4), JsStr(1))>>)

\* one person with external id 1, a node and a link without external id
PlainGraph(ver) ==
  MkData(ver,
         <<MkNode(ver, 1, "PERSON", JsUndef, JsStr(11), FALSE, JsStr(2), <<2>>, <<1>>, 1, 1),
           MkNode(ver, 2, "PERSON", JsStr(1), JsStr(12), FALSE, JsUndef, <<1>>, <<1>>, 2, 2)>>,
         <<MkLink(ver, 1, RawEnd(1), RawEnd(2), JsUndef)>>)

EmptyGraph(ver) == MkData(ver, <<>>, <<>>)

SearchDatasets(ver) == {SharedIdGraph(ver), PlainGraph(ver), EmptyGraph(ver)}

ResponseKeys ==
  {"relationships", "entities", "reports", "sources", "covariates", "claims"}

\* the items a response may carry under a key
ItemsFor(key) ==
  CASE key = "entities" -> {Item(JsNum(1), JsUndef), Item(JsUndef, JsUndef)}
    [] key = "claims" -> {Item(JsNum(1), JsUndef)}
    [] key = "sources" -> {Item(JsUndef, JsStr(1))}
    [] OTHER -> {Item(JsStr(1), JsUndef)}

\* the context_data objects with at most budget items under distinct keys
RECURSIVE ContextsWith(_, _)
ContextsWith(budget, keys) ==
  {<<>>} \cup
  UNION {{<<Entry(k, items)>> \o rest :
            items \in [1..c -> ItemsFor(k)],
            rest \in ContextsWith(budget - c, keys \ {k})} :
         k \in keys, c \in 1..budget}

Responses ==
  {Response(TRUE, entries) : entries \in ContextsWith(MaxItems, ResponseKeys)}
    \cup {Response(FALSE, <<>>)}

InitSearch == AllFlagsOn /\ \E d \in SearchDatasets(0) : Mounted(d)

NextSearch ==
  \/ ApiSearchStart(MaxPending)
  \/ \E i \in 1..Len(pendingSearches), response \in Responses :
       ApiSearchResolve(i, response)
  \/ \E i \in 1..Len(pendingSearches) : ApiSearchReject(i)

SpecSearch == InitSearch /\ [][NextSearch]_vars

\* the [key, item] pairs of the stored response
StoredItems ==
  UNION {{[key |-> entry.key, item |-> item] : item \in Range(entry.items)} :
         entry \in Range(apiSearchResults.context_data)}

\* both values are present and have the same string form
SameString(a, b) == a.t # "undefined" /\ b.t # "undefined" /\ a.v = b.v

\* the per-key rules of the mapper, as the specification words them
SelectsLink(pair, link) ==
  pair.key = "relationships" /\ SameString(link.human_readable_id, pair.item.id)
SelectsNode(pair, node) ==
  \/ /\ pair.key = "entities"
     /\ SameString(node.human_readable_id, pair.item.id)
     /\ ~node.covariate_type
  \/ pair.key = "reports" /\ SameString(node.uuid, pair.item.id)
  \/ pair.key = "sources" /\ SameString(node.text, pair.item.text)
  \/ /\ pair.key \in {"covariates", "claims"}
     /\ SameString(node.human_readable_id, pair.item.id)
     /\ node.covariate_type

AllSelectedNodes ==
  {node \in Range(initialGraphData.nodes) :
     \E pair \in StoredItems : SelectsNode(pair, node)}
AllSelectedLinks ==
  {link \in Range(initialGraphData.links) :
     \E pair \in StoredItems : SelectsLink(pair, link)}

\* per item, the first element in snapshot order that its rule selects
FirstSelectedNodes ==
  {initialGraphData.nodes[i] : i \in
     {i \in 1..Len(initialGraphData.nodes) :
        \E pair \in StoredItems :
          /\ SelectsNode(pair, initialGraphData.nodes[i])
          /\ \A j \in 1..(i - 1) : ~SelectsNode(pair, initialGraphData.nodes[j])}}
FirstSelectedLinks ==
  {initialGraphData.links[i] : i \in
     {i \in 1..Len(initialGraphData.links) :
        \E pair \in StoredItems :
          /\ SelectsLink(pair, initialGraphData.links[i])
          /\ \A j \in 1..(i - 1) : ~SelectsLink(pair, initialGraphData.links[j])}}

\* a response with context data has just been handled by the mapper
MapperRan ==
  /\ lastOp.op = "apiSearch"
  /\ lastOp.outcome # "rejected"
  /\ apiSearchResults.hasContext

\* the mapper raised only where an item that needs an id has none
RaisedOnlyWithoutId ==
  lastOp.outcome = "threw" =>
    \E pair \in StoredItems : pair.key # "sources" /\ pair.item.id.t = "undefined"

SearchReplacesRendered ==
  (MapperRan /\ lastOp.outcome = "ok") =>
    /\ [i \in 1..Len(renderedGraphData.nodes) |-> renderedGraphData.nodes[i].id]
         = [i \in 1..Len(graphData.nodes) |-> graphData.nodes[i].id]
    /\ [i \in 1..Len(renderedGraphData.links) |-> renderedGraphData.links[i].lid]
         = [i \in 1..Len(graphData.links) |-> graphData.links[i].lid]

\* C9: a remote search that fails, because the call rejects or because the
\* mapper cannot process the response, leaves the stored search results and
\* the stored graph data as they were.
SearchFailureLeavesState ==
  [][(lastOp'.op = "apiSearch" /\ lastOp'.outcome \in {"rejected", "threw"})
       => (apiSearchResults' = apiSearchResults /\ graphData' = graphData)]_vars

(***************************************************************************)
(* Focus: hovers on the surface, focus buttons of the search list and the  *)
(* settle timers, on the hover datasets.                                   *)
(***************************************************************************)
\* settle timers pending at one time
MaxTimers == 1

NextFocus ==
  \/ \E node \in Range(renderedGraphData.nodes) \cup {Null} : NodeHover(node)
  \/ \E link \in Range(renderedGraphData.links) \cup {Null} : LinkHover(link)
  \/ \E node \in Range(data.nodes) : Len(timers) < MaxTimers /\ FocusNode(node)
  \/ \E link \in Range(data.links) : Len(timers) < MaxTimers /\ FocusLink(link)
  \/ TimerFire

SpecFocus == InitHover /\ [][NextFocus]_vars

\* C11: immediately after focus(node), the highlight link set is exactly the
\* focused node's incident links and the highlight node set is exactly the
\* node plus its neighbors.
FocusReplacesHighlight ==
  lastOp.op = "focusNode" =>
    /\ {r.lid : r \in highlightLinks}
         = {lastOp.target.links[i] : i \in 1..Len(lastOp.target.links)}
    /\ {r.id : r \in highlightNodes}
         = {lastOp.target.id}
             \cup {lastOp.target.neighbors[i] : i \in 1..Len(lastOp.target.neighbors)}

(***************************************************************************)
(* Level of detail: every placement of NumClusterNodes nodes on the        *)
(* coordinates ClusterCoords, under the zoom levels ZoomLevels.            *)
(***************************************************************************)
\* number of nodes of the generated datasets of the clusterer
NumClusterNodes == 3

\* x coordinates on both sides of the cell borders of clusterThreshold
ClusterCoords == {0, 40, 50, 160}
\* zoom factors (hundredths) on both sides of LowZoom
ZoomLevels == {25, 49, 50, 100}

ClusterDatasets ==
  {MkData(0,
          [i \in 1..NumClusterNodes |->
             MkNode(0, i, "PERSON", JsNum(i), JsStr(i), FALSE, JsUndef, <<>>,
                    <<>>, xs[i], 0)],
          <<>>) : xs \in [1..NumClusterNodes -> ClusterCoords]}

InitCluster == AllFlagsOn /\ \E d \in ClusterDatasets : Mounted(d)

NextCluster == \E k \in ZoomLevels : Zoom(k)

SpecCluster == InitCluster /\ [][NextCluster]_vars

\* the listings of a node list in every order
Reorderings(nodes) ==
  {[i \in 1..Len(nodes) |-> nodes[perm[i]]] : perm \in Permutations(1..Len(nodes))}

\* the ids of the cluster nodes of a clusterer output
ClusterIdsOf(elements) ==
  {elements[i].id : i \in {j \in 1..Len(elements) : elements[j].type = "cluster"}}

\* C12: at a zoom below 0.5 the cluster ids of the displayed clustering are
\* those of the clustering of the same node set listed in any other order
\* (and of the same list clustered again).
ClusterIdsOrderIndependent ==
  graphZoom < LowZoom =>
    \A listing \in Reorderings(data.nodes) :
      ClusterIdsOf(clusterNodes(listing, clusterThreshold))
        = ClusterIdsOf(clusteredData.nodes)

\* the index of the grid line nearest to coordinate v, the upper one when v
\* lies halfway between two
NearestCell(v) ==
  CHOOSE r \in 0..(v \div clusterThreshold + 1) :
    /\ 2 * r * clusterThreshold - clusterThreshold <= 2 * v
    /\ 2 * v < 2 * r * clusterThreshold + clusterThreshold

\* the grid cell of a node
CellOf(node) == <<NearestCell(node.x), NearestCell(node.y)>>

IsClusterNode(element) == "cluster" \in DOMAIN element

\* element is node itself, or a cluster node with node among its members
Holds(element, node) ==
  IF IsClusterNode(element) THEN node \in Range(element.nodes)
  ELSE element = node

\* C33: below zoom 0.5 every node of the clusterer's input is held by
\* exactly one output element, as itself if it is alone in its grid cell and
\* by a cluster node otherwise; every cluster node has at least two members;
\* there are as many output elements as non-empty cells. From zoom 0.5 on
\* the output is the input.
ClusterPartition ==
  LET input == data.nodes
      output == clusteredData.nodes
  IN  IF graphZoom >= LowZoom THEN output = input
      ELSE /\ \A node \in Range(input) :
                /\ Cardinality({j \in DOMAIN output : Holds(output[j], node)}) = 1
                /\ (\E j \in DOMAIN output : output[j] = node)
                     <=> (\A other \in Range(input) :
                            CellOf(other) = CellOf(node) => other = node)
           /\ \A j \in DOMAIN output :
                IsClusterNode(output[j]) =>
                  /\ Len(output[j].nodes) >= 2
                  /\ Range(output[j].nodes) \subseteq Range(input)
           /\ Len(output) = Cardinality({CellOf(node) : node \in Range(input)})

\* below zoom 0.5, one node alone in its cell next to a cluster of two, the
\* border of their cells between them
ClusterPartitionWitness ==
  /\ graphZoom < LowZoom
  /\ Len(clusteredData.nodes) = 2
  /\ \E j \in DOMAIN clusteredData.nodes : IsClusterNode(clusteredData.nodes[j])
  /\ \E j \in DOMAIN clusteredData.nodes : ~IsClusterNode(clusteredData.nodes[j])
  /\ \E a, b \in Range(data.nodes) : a.x = 40 /\ b.x = 50

(***************************************************************************)
(* Degree: a small graph and a ring of LargeSize nodes replace one another *)
(* while the background layout task answers and a remote search is mapped. *)
(***************************************************************************)
\* n nodes, each with its two ring neighbors
RingGraph(ver, n) ==
  MkData(ver,
         [i \in 1..n |->
            MkNode(ver, i, "PERSON", JsNum(i), JsStr(i), FALSE, JsUndef,
                   <<IF i = 1 THEN n ELSE i - 1, IF i = n THEN 1 ELSE i + 1>>,
                   <<>>, i, i)],
         <<>>)

DegreeDatasets(ver) == {StarGraph(ver), RingGraph(ver, LargeSize)}

\* {context_data: {entities: [{id: 1}]}}
EntityResponse == Response(TRUE, <<Entry("entities", <<Item(JsNum(1), JsUndef)>>)>>)

InitDegree == AllFlagsOn /\ \E d \in DegreeDatasets(0) : Mounted(d)

NextDegree ==
  \/ \E d \in DegreeDatasets(data.ver + 1) : DataChange(d)
  \/ \E i \in 1..Len(workers) : WorkerMessage(i)
  \/ ApiSearchStart(MaxPending)
  \/ \E i \in 1..Len(pendingSearches) : ApiSearchResolve(i, EntityResponse)

SpecDegree == InitDegree /\ [][NextDegree]_vars

\* C13: every node handed to the renderer has a degree equal to the size of
\* its neighbor set (0 without neighbors), after the initial load and after
\* a new data prop, an offload merge or a mapper substitution.
DegreeIsNeighborCount ==
  LET rendered == Range(renderedGraphData.nodes)
  IN  \A node \in rendered : node.degree = Cardinality(Range(node.neighbors))

\* the background layout task has answered and a rendered node has two
\* neighbors
DegreeIsNeighborCountWitness ==
  /\ lastOp.op = "workerMessage"
  /\ LET rendered == Range(renderedGraphData.nodes)
     IN  \E node \in rendered : node.degree = 2

\* a remote search has been mapped and a rendered node has two neighbors
DegreeAfterMapperWitness ==
  /\ lastOp.op = "apiSearch"
  /\ lastOp.outcome = "ok"
  /\ LET rendered == Range(renderedGraphData.nodes)
     IN  \E node \in rendered : node.degree = 2

(***************************************************************************)
(* Availability: the category checkboxes and the API search drawer on      *)
(* datasets that lack some of the gated categories.                        *)
(***************************************************************************)
\* a document, a person and a covariate: no text unit, no community
DocumentGraph(ver) ==
  MkData(ver,
         <<MkNode(ver, 1, "document", JsNum(1), JsStr(1), FALSE, JsUndef, <<2>>, <<1>>, 1, 1),
           MkNode(ver, 2, "PERSON", JsNum(2), JsStr(2), FALSE, JsUndef, <<1, 3>>, <<1, 2>>, 2, 2),
           MkNode(ver, 3, "COVARIATE", JsNum(3), JsStr(3), TRUE, JsUndef, <<2>>, <<2>>, 3, 3)>>,
         <<MkLink(ver, 1, ObjEnd(1), ObjEnd(2), JsNum(1)),
           MkLink(ver, 2, ObjEnd(2), ObjEnd(3), JsNum(2))>>)

ToggleDatasets == HoverDatasets(0) \cup SearchDatasets(0) \cup {DocumentGraph(0)}

InitToggle == AnyFlags /\ \E d \in ToggleDatasets : Mounted(d)

NextToggle ==
  \/ ToggleDocuments
  \/ ToggleTextUnits
  \/ ToggleCommunities
  \/ ToggleCovariates
  \/ \E open \in BOOLEAN : toggleApiDrawer(open)

SpecToggle == InitToggle /\ [][NextToggle]_vars

\* C14: while a category's presence flag is false, no step changes that
\* category's inclusion flag.
UnavailableCategoryUntouched ==
  [][/\ ~hasDocuments => includeDocuments' = includeDocuments
     /\ ~hasTextUnits => includeTextUnits' = includeTextUnits
     /\ ~hasCommunities => includeCommunities' = includeCommunities
     /\ ~hasCovariates => includeCovariates' = includeCovariates]_vars

(***************************************************************************)
(* The Category Filter's result, on the datasets of SpecFilter.            *)
(***************************************************************************)
\* the flag that gates a node's category; TRUE for an ungated category
CategoryFlag(node) ==
  LET category == ToLowerCase(node.type)
  IN  /\ category = "document" => includeDocuments
      /\ category = "textunit" => includeTextUnits
      /\ category = "community" => includeCommunities
      /\ category = "covariate" => includeCovariates

\* C15: the visible nodes are exactly the nodes of an ungated category plus
\* the nodes of a gated category whose flag is true, in the dataset's order,
\* and the visible links are exactly the links whose source and target are
\* both visible nodes.
FilterResultExact ==
  LET out == filteredGraphData
      visibleIds == {data.nodes[i].id : i \in {j \in 1..Len(data.nodes) : CategoryFlag(data.nodes[j])}}
      bothVisible(link) ==
        EndpointId(link.source) \in visibleIds /\ EndpointId(link.target) \in visibleIds
  IN  /\ [i \in 1..Len(out.nodes) |-> out.nodes[i].id]
           = [i \in 1..Len(SelectSeq(data.nodes, CategoryFlag)) |->
                SelectSeq(data.nodes, CategoryFlag)[i].id]
      /\ out.links = SelectSeq(data.links, bothVisible)

\* a toggle has hidden one endpoint of the dataset's link: one node and no
\* link are visible
FilterResultExactWitness ==
  /\ lastOp.op = "toggleTextUnits"
  /\ Len(data.nodes) = 2
  /\ Len(data.links) = 1
  /\ EndpointId(data.links[1].source) # EndpointId(data.links[1].target)
  /\ {EndpointId(data.links[1].source), EndpointId(data.links[1].target)}
       = {data.nodes[1].id, data.nodes[2].id}
  /\ Len(filteredGraphData.nodes) = 1
  /\ filteredGraphData.links = <<>>

(***************************************************************************)
(* Offload merge: the background layout task answers with positions for    *)
(* all nodes, for all nodes but the first, or with the first node at the   *)
(* origin.                                                                 *)
(***************************************************************************)
WithoutFirstNode(d) == [d EXCEPT !.nodes = Tail(@)]
FirstNodeAtOrigin(d) == [d EXCEPT !.nodes[1].x = 0, !.nodes[1].y = 0]

MergeResponses(d) ==
  {WorkerResult(d), WithoutFirstNode(WorkerResult(d)),
   FirstNodeAtOrigin(WorkerResult(d))}

NextMerge ==
  \/ \E d \in BulkDatasets(data.ver + 1, OffloadSizes) : DataChange(d)
  \/ \E i \in 1..Len(workers) :
       \E response \in MergeResponses(workers[i].data) :
         WorkerMessageWith(i, response)

SpecMerge == InitOffload /\ [][NextMerge]_vars

\* C16: when the offload submitted for the current dataset completes, the
\* stored graph has the canonical nodes, none added or removed; a node whose
\* id is in the response has the returned position (a coordinate of 0
\* included) and a node absent from the response is unchanged.
OffloadMergeExact ==
  (lastOp.op = "workerMessage" /\ lastOp.submitted = data.ver) =>
    LET returned == lastOp.response.nodes
        returnedIds == {returned[i].id : i \in 1..Len(returned)}
        at(id) == returned[CHOOSE i \in 1..Len(returned) : returned[i].id = id]
    IN  /\ Len(graphData.nodes) = Len(data.nodes)
        /\ \A i \in 1..Len(data.nodes) :
             /\ graphData.nodes[i].id = data.nodes[i].id
             /\ IF data.nodes[i].id \in returnedIds
                  THEN /\ graphData.nodes[i].x = at(data.nodes[i].id).x
                       /\ graphData.nodes[i].y = at(data.nodes[i].id).y
                  ELSE graphData.nodes[i] = data.nodes[i]

\* C17: the visible list holds the first min(chunkSize * t, n) nodes of the
\* current snapshot, in the snapshot's order, for the number t of
\* animation-frame ticks since the snapshot arrived.
RevealIsPrefixOfSnapshot ==
  \E t \in 0..(Len(data.nodes) \div chunkSize + 1) :
    visibleNodes = SubSeq(data.nodes, 1, Min(chunkSize * t, Len(data.nodes)))

\* the ids of the resolved endpoints of a link
ResolvedEndpoints(link) ==
  {end.node : end \in {e \in {link.source, link.target} : e.kind = "object"}}

\* C18: hover(node) sets the HighlightSet to exactly the node plus its
\* direct neighbors and its incident links; hover(link) sets it to exactly
\* the link's resolved endpoints and the link; hover(null) empties both
\* sets; whatever the HighlightSet was before.
HoverSetsExact ==
  /\ (lastOp.op \in {"nodeHover", "linkHover"} /\ lastOp.target = Null) =>
       (highlightNodes = {} /\ highlightLinks = {})
  /\ (lastOp.op = "nodeHover" /\ lastOp.target # Null) =>
       /\ highlightNodes
            = {[ds |-> lastOp.target.ds, id |-> id] :
                 id \in {lastOp.target.id} \cup Range(lastOp.target.neighbors)}
       /\ highlightLinks
            = {[ds |-> lastOp.target.ds, lid |-> lid] : lid \in Range(lastOp.target.links)}
  /\ (lastOp.op = "linkHover" /\ lastOp.target # Null) =>
       /\ highlightNodes
            = {[ds |-> lastOp.target.ds, id |-> id] : id \in ResolvedEndpoints(lastOp.target)}
       /\ highlightLinks = {[ds |-> lastOp.target.ds, lid |-> lastOp.target.lid]}

\* a node was hovered while the links of an earlier focus were highlighted:
\* only its own links are highlighted now
HoverSetsExactWitness ==
  /\ lastOp.op = "nodeHover"
  /\ lastOp.target # Null
  /\ Cardinality(highlightNodes) = 3
  /\ Cardinality(highlightLinks) = 2
  /\ timers # <<>>

\* a link was hovered after a node hover: its two resolved endpoints and the
\* link are highlighted
HoverLinkWitness ==
  /\ lastOp.op = "linkHover"
  /\ lastOp.target # Null
  /\ hoverNode # Null
  /\ Cardinality(highlightNodes) = 2

(***************************************************************************)
(* Selection: hovers and clicks on the hover datasets, with the text-unit  *)
(* and covariate checkboxes hiding nodes; clicked elements come from the   *)
(* surface or from the search list.                                        *)
(***************************************************************************)
NextSelect ==
  \/ \E node \in Range(renderedGraphData.nodes) \cup {Null} : NodeHover(node)
  \/ \E link \in Range(renderedGraphData.links) \cup {Null} : LinkHover(link)
  \/ \E node \in Range(renderedGraphData.nodes) \cup Range(data.nodes) : NodeClick(node)
  \/ \E link \in Range(data.links) : LinkClick(link)
  \/ ToggleTextUnits
  \/ ToggleCovariates

SpecSelect == InitHover /\ [][NextSelect]_vars

\* C19: after click(link) the link is the selection and no node is
\* selected; the linked context is the link's two endpoints, looked up by
\* id in the canonical node list, and the single link.
LinkClickContext ==
  lastOp.op = "linkClick" =>
    /\ selectedNode = Null
    /\ selectedRelationship = [ds |-> lastOp.target.ds, lid |-> lastOp.target.lid]
    /\ linkedNodes
         = <<[ds |-> data.ver, id |-> EndpointId(lastOp.target.source)],
             [ds |-> data.ver, id |-> EndpointId(lastOp.target.target)]>>
    /\ \A i \in 1..2 : \E node \in Range(data.nodes) : node.id = linkedNodes[i].id
    /\ linkedRelationships = <<[ds |-> lastOp.target.ds, lid |-> lastOp.target.lid]>>

\* a link was clicked while the category filter hides one of its endpoints
LinkClickContextWitness ==
  /\ lastOp.op = "linkClick"
  /\ Len(linkedNodes) = 2
  /\ \E i \in 1..2 :
       \A node \in Range(renderedGraphData.nodes) : node.id # linkedNodes[i].id

\* C20: click(node) and click(link) leave the highlight node set, the
\* highlight link set and the hovered node unchanged.
ClickKeepsHighlight ==
  [][lastOp'.op \in {"nodeClick", "linkClick"} =>
       /\ highlightNodes' = highlightNodes
       /\ highlightLinks' = highlightLinks
       /\ hoverNode' = hoverNode]_vars

\* a node was clicked while a hover highlight was live
ClickKeepsHighlightWitness ==
  /\ lastOp.op = "nodeClick"
  /\ hoverNode # Null
  /\ Cardinality(highlightNodes) = 3
  /\ selectedNode # Null

\* C23: the output of a remote search is what the mapper makes of its
\* response and the original snapshot alone: after a search that mapped its
\* response, whatever searches ran before it, the displayed snapshot is the
\* one the same response gives on the dataset as it was mounted, and the
\* retained original snapshot is still that dataset.
SearchNotSelfReferential ==
  /\ initialGraphData = data
  /\ (lastOp.op = "apiSearch" /\ lastOp.outcome = "ok" /\ apiSearchResults.hasContext)
       => LET alone == MapContext(data, apiSearchResults.context_data)
          IN  graphData = [nodes |-> alone.newNodes, links |-> alone.newLinks]

\* a search mapped its response to a non-empty snapshot while the snapshot
\* an earlier search had substituted, a different one, was displayed
SearchNotSelfReferentialWitness ==
  /\ lastOp.op = "apiSearch"
  /\ lastOp.outcome = "ok"
  /\ apiSearchResults.hasContext
  /\ lastOp.before # data
  /\ lastOp.before # graphData
  /\ Len(lastOp.before.nodes) + Len(lastOp.before.links) > 0
  /\ Len(graphData.nodes) + Len(graphData.links) > 0

\* C24: in every Graph Store snapshot, the one the mapper substitutes
\* included, the source id and the target id of each link are ids of nodes
\* of the same snapshot.
StoreLinksClosed ==
  LET ids == {graphData.nodes[i].id : i \in 1..Len(graphData.nodes)}
  IN  \A i \in 1..Len(graphData.links) :
        /\ EndpointId(graphData.links[i].source) \in ids
        /\ EndpointId(graphData.links[i].target) \in ids

(***************************************************************************)
(* The search list: fuzzy searches over the hover datasets, and the panel   *)
(* opened and closed.                                                      *)
(***************************************************************************)
\* largest number of elements a fuzzy search returns
MaxResults == 3

NextSearchList ==
  \/ \E results \in FuseResults(data, MaxResults) : Search(results)
  \/ \E open \in BOOLEAN : toggleDrawer(open)

SpecSearchList == InitHover /\ [][NextSearchList]_vars

IsNodeResult(item) == "neighbors" \in DOMAIN item
IsLinkResult(item) == "source" \in DOMAIN item /\ "target" \in DOMAIN item

\* the position of item in the ranked list results
RankIn(results, item) == CHOOSE i \in DOMAIN results : results[i] = item

\* C22: right after search(term), with the index's ranked list results, the
\* search list holds exactly the node-results and link-results of results,
\* every node-result before every link-result, each group in rank order, and
\* the result list is open, also when results is empty.
SearchListPartitioned ==
  lastOp.op = "search" =>
    LET results == lastOp.results
        shown == {results[i] : i \in DOMAIN results}
        out == searchResults
    IN  /\ rightDrawerOpen
        /\ {out[i] : i \in DOMAIN out}
             = {item \in shown : IsNodeResult(item) \/ IsLinkResult(item)}
        /\ \A i, j \in DOMAIN out :
             /\ IsNodeResult(out[i]) /\ IsLinkResult(out[j]) => i < j
             /\ (i < j /\ (IsNodeResult(out[i]) <=> IsNodeResult(out[j])))
                  => RankIn(results, out[i]) < RankIn(results, out[j])

\* a search whose ranked list has a link above a node
SearchListPartitionedWitness ==
  /\ lastOp.op = "search"
  /\ \E i, j \in DOMAIN lastOp.results :
       /\ i < j
       /\ IsLinkResult(lastOp.results[i])
       /\ IsNodeResult(lastOp.results[j])
  /\ Len(searchResults) = Len(lastOp.results)

(***************************************************************************)
(* Focus and its settle timer: the behaviours of the focus specification   *)
(* with the search list panel opened and closed. A callback handed to      *)
(* setTimeout is run by the event loop once its delay has passed, and the  *)
(* component never calls clearTimeout: weak fairness of TimerFire.         *)
(***************************************************************************)
NextFocusLive ==
  \/ NextFocus
  \/ \E open \in BOOLEAN : toggleDrawer(open)

SpecFocusLive == InitHover /\ [][NextFocusLive]_vars /\ WF_vars(TimerFire)

\* the nodes and links a focus button can be pressed for
FocusTargetNodes == UNION {Range(d.nodes) : d \in HoverDatasets(0)}
FocusTargetLinks == UNION {Range(d.links) : d \in HoverDatasets(0)}

\* the settle timer of el has just run and the HighlightSet is el's hover set
SettledOnNode(el) ==
  /\ lastOp = [op |-> "timer", target |-> el]
  /\ highlightNodes = NodeHoverNodes(el)
  /\ highlightLinks = NodeHoverLinks(el)
SettledOnLink(el) ==
  /\ lastOp = [op |-> "timer", target |-> el]
  /\ highlightNodes = LinkHoverNodes(el)
  /\ highlightLinks = LinkHoverLinks(el)

\* a hover event, or a focus of another element, is the last thing that ran
OtherHoverOrFocus(el) ==
  \/ lastOp.op \in {"nodeHover", "linkHover"}
  \/ lastOp.op \in {"focusNode", "focusLink"} /\ lastOp.target # el

\* C21: right after focus(node) or focus(link) the search list panel is
\* closed, and every focus of an element is followed by the settle timer
\* re-issuing hover on that element, which leaves the HighlightSet equal to
\* the element's hover set, unless another hover or focus event comes first.
FocusSettles ==
  /\ [](lastOp.op \in {"focusNode", "focusLink"} => ~rightDrawerOpen)
  /\ \A el \in FocusTargetNodes :
       (lastOp = [op |-> "focusNode", target |-> el])
         ~> (SettledOnNode(el) \/ OtherHoverOrFocus(el))
  /\ \A el \in FocusTargetLinks :
       (lastOp = [op |-> "focusLink", target |-> el])
         ~> (SettledOnLink(el) \/ OtherHoverOrFocus(el))

\* the settle timer of a focused node has run: the HighlightSet is the
\* node's hover set, the node is the hovered one and the panel is closed
FocusSettlesWitness ==
  /\ lastOp.op = "timer"
  /\ "neighbors" \in DOMAIN lastOp.target
  /\ SettledOnNode(lastOp.target)
  /\ ~rightDrawerOpen
  /\ hoverNode = NodeRef(lastOp.target.ds, lastOp.target.id)

(***************************************************************************)
(* Reverting a search: remote searches on the search datasets together     *)
(* with the operations that write the displayed snapshot or the stored     *)
(* results, or that are enabled by them: the category checkboxes, the API  *)
(* drawer and a new dataset from the parent.                               *)
(***************************************************************************)
NextRevert ==
  \/ ApiSearchStart(MaxPending)
  \/ \E i \in 1..Len(pendingSearches), response \in Responses :
       ApiSearchResolve(i, response)
  \/ \E i \in 1..Len(pendingSearches) : ApiSearchReject(i)
  \/ ToggleTextUnits
  \/ ToggleCommunities
  \/ ToggleCovariates
  \/ \E open \in BOOLEAN : toggleApiDrawer(open)
  \/ \E d \in SearchDatasets(data.ver + 1) : DataChange(d)

SpecRevert == InitSearch /\ [][NextRevert]_vars

\* C25: in every state in which a remote search has stored its results,
\* some operation is enabled that leaves the displayed snapshot equal to the
\* retained initial snapshot and the stored search results cleared.
SearchRevertible ==
  apiSearchResults # Null =>
    ENABLED (NextRevert /\ apiSearchResults' = Null
                        /\ graphData' = initialGraphData')

(***************************************************************************)
(* The place of the clusterer in the data flow: zoom changes and category  *)
(* toggles on the cluster datasets with a text unit among the nodes.       *)
(***************************************************************************)
\* the cluster datasets, the last node being a text unit
FlowDatasets ==
  {MkData(d.ver,
          [i \in 1..Len(d.nodes) |->
             IF i = Len(d.nodes) THEN [d.nodes[i] EXCEPT !.type = "TextUnit"]
             ELSE d.nodes[i]],
          d.links) : d \in ClusterDatasets}

InitFlow == AllFlagsOn /\ \E d \in FlowDatasets : Mounted(d)

NextFlow ==
  \/ \E k \in ZoomLevels : Zoom(k)
  \/ ToggleTextUnits

SpecFlow == InitFlow /\ [][NextFlow]_vars

\* the fields of a node of the dataset, without the fields a memo adds
AsDataNode(node) == [f \in DOMAIN node \ {"degree"} |-> node[f]]

\* the category-filtered node list, as nodes of the dataset
FilteredDataNodes ==
  [i \in 1..Len(filteredGraphData.nodes) |-> AsDataNode(filteredGraphData.nodes[i])]

\* the ids of the elements of a node list
ElementIds(nodes) == [i \in 1..Len(nodes) |-> nodes[i].id]

\* C26: the node list handed to the rendering surface is, for zoom below
\* 0.5, the clusterer's output on the category-filtered node list, and the
\* filtered list itself otherwise.
ClustererFeedsSurface ==
  ElementIds(renderedGraphData.nodes)
    = IF graphZoom < LowZoom
        THEN ElementIds(clusterNodes(FilteredDataNodes, clusterThreshold))
        ELSE ElementIds(filteredGraphData.nodes)

(***************************************************************************)
(* Visibility at low zoom: zoom changes, category toggles and dataset      *)
(* replacement on graphs with a hub of three neighbors.                    *)
(***************************************************************************)
\* 1 - 2, 1 - 3, 2 - 3, 1 - 4: node 1 has three neighbors, node 4 (a text
\* unit) one; endpoints resolved, raw and mixed
HubGraph(ver) ==
  MkData(ver,
         <<HoverNode(ver, 1, "PERSON", <<2, 3, 4>>, <<1, 2, 4>>),
           HoverNode(ver, 2, "PERSON", <<1, 3>>, <<1, 3>>),
           HoverNode(ver, 3, "PERSON", <<1, 2>>, <<2, 3>>),
           HoverNode(ver, 4, "TextUnit", <<1>>, <<4>>)>>,
         <<MkLink(ver, 1, ObjEnd(1), ObjEnd(2), JsNum(1)),
           MkLink(ver, 2, RawEnd(1), RawEnd(3), JsNum(2)),
           MkLink(ver, 3, ObjEnd(2), ObjEnd(3), JsNum(3)),
           MkLink(ver, 4, ObjEnd(4), RawEnd(1), JsNum(4))>>)

VisibilityDatasets(ver) == {HubGraph(ver), StarGraph(ver)}

InitVisibility == AllFlagsOn /\ \E d \in VisibilityDatasets(0) : Mounted(d)

NextVisibility ==
  \/ \E k \in ZoomLevels : Zoom(k)
  \/ ToggleTextUnits
  \/ \E d \in VisibilityDatasets(data.ver + 1) : DataChange(d)

SpecVisibility == InitVisibility /\ [][NextVisibility]_vars

\* the number of neighbors of the node with this id in the dataset
NeighborCount(id) ==
  LET node == CHOOSE n \in Range(data.nodes) : n.id = id
  IN  Len(node.neighbors)

\* C27: below zoom 0.5 a rendered node is visible exactly if it has more
\* than two neighbors, and a rendered link is visible only if both endpoints
\* are resolved and one of them has more than two neighbors; from 0.5 on
\* every rendered node and link is visible.
LowZoomVisibility ==
  LET rendered == renderedGraphData
  IN  /\ \A node \in Range(rendered.nodes) :
           nodeVisibility(node)
             <=> (graphZoom < LowZoom => NeighborCount(node.id) > 2)
      /\ \A link \in Range(rendered.links) :
           \A source \in EndpointObjects(link.source),
              target \in EndpointObjects(link.target) :
             IF graphZoom < LowZoom
               THEN linkVisibility(link, source, target)
                      => /\ link.source.kind = "object"
                         /\ link.target.kind = "object"
                         /\ \/ NeighborCount(link.source.node) > 2
                            \/ NeighborCount(link.target.node) > 2
               ELSE linkVisibility(link, source, target)

\* below zoom 0.5 with a visible and a hidden node, and a visible and a
\* hidden link, rendered
LowZoomVisibilityWitness ==
  LET rendered == renderedGraphData
  IN  /\ graphZoom < LowZoom
      /\ \E node \in Range(rendered.nodes) : nodeVisibility(node)
      /\ \E node \in Range(rendered.nodes) : ~nodeVisibility(node)
      /\ \E link \in Range(rendered.links) :
           \E source \in EndpointObjects(link.source),
              target \in EndpointObjects(link.target) :
             linkVisibility(link, source, target)
      /\ \E link \in Range(rendered.links) :
           \A source \in EndpointObjects(link.source),
              target \in EndpointObjects(link.target) :
             ~linkVisibility(link, source, target)

(***************************************************************************)
(* Teardown: a dataset is mounted, its first node is focused from the      *)
(* search list, the callbacks run, and the component is unmounted at any   *)
(* point.                                                                  *)
(***************************************************************************)
NextTeardown ==
  \/ AnimationFrame
  \/ \E i \in 1..Len(workers) : WorkerMessage(i)
  \/ Len(timers) < MaxTimers /\ FocusNode(data.nodes[1])
  \/ TimerFire
  \/ Unmount

SpecTeardown == InitOffload /\ [][NextTeardown]_vars

\* C28: once the view is torn down, no offload worker is left running and
\* no callback is left pending: no progressive-reveal frame, no focus settle
\* timer, no worker response.
TeardownReleasesAll ==
  ~mounted =>
    /\ workers = <<>>
    /\ rafQueue = <<>>
    /\ timers = <<>>

(***************************************************************************)
(* The status probe settling while the category checkboxes and the API     *)
(* drawer are used.                                                        *)
(***************************************************************************)
\* status strings: the sentinel, near misses and other texts
ProbeStatuses ==
  {ServerUpStatus, "Server is up and running.", "server is up and running",
   "Server is up", "Server is down", ""}

ProbeResults ==
  {ProbeResolved(status) : status \in ProbeStatuses}
    \cup {ProbeNoStatus, ProbeUndefined, ProbeRejected}

NextProbe ==
  \/ \E result \in ProbeResults : StatusProbeSettles(result)
  \/ ToggleDocuments
  \/ ToggleTextUnits
  \/ ToggleCommunities
  \/ ToggleCovariates
  \/ \E open \in BOOLEAN : toggleApiDrawer(open)

SpecProbe == InitToggle /\ [][NextProbe]_vars

\* C29: once the probe has settled, the server-up flag is true exactly if
\* the probe resolved with the status "Server is up and running"; for every
\* other status, a response without status, and a failed probe, it is false.
StatusProbeExact ==
  statusProbe.state = "done" =>
    (serverUp <=> /\ statusProbe.result.kind = "resolved"
                  /\ statusProbe.result.status = "Server is up and running")

\* the probe resolved with the sentinel and the flag is up, the drawer open
StatusProbeExactWitness ==
  /\ statusProbe.state = "done"
  /\ statusProbe.result = ProbeResolved("Server is up and running")
  /\ serverUp
  /\ apiDrawerOpen

(***************************************************************************)
(* The dependency of covariates on text units: the category checkboxes and *)
(* the API drawer, from every flag combination in which covariates are     *)
(* included only together with text units.                                 *)
(***************************************************************************)
InitDependency == InitToggle /\ (includeCovariates => includeTextUnits)

SpecDependency == InitDependency /\ [][NextToggle]_vars

\* C32: covariates are never included while text units are excluded.
CovariatesNeedTextUnits == includeCovariates => includeTextUnits

\* the covariates checkbox was ticked while text units were excluded, and
\* both are included now
CovariatesNeedTextUnitsWitness ==
  /\ lastOp.op = "toggleCovariates"
  /\ ~lastOp.includeTextUnits
  /\ ~lastOp.includeCovariates
  /\ includeCovariates
  /\ includeTextUnits

(***************************************************************************)
(* Selection from the search list: single-element fuzzy searches, dataset  *)
(* replacement, and clicks on nodes of the dataset and on links the list   *)
(* holds.                                                                  *)
(***************************************************************************)
NextListSelect ==
  \/ \E results \in FuseResults(data, 1) : Search(results)
  \/ \E d \in HoverDatasets(data.ver + 1) : DataChange(d)
  \/ \E node \in Range(data.nodes) : NodeClick(node)
  \/ \E link \in Range(searchResults) : ListLinkClick(link)

SpecListSelect == InitHover /\ [][NextListSelect]_vars

\* C34: while a link is the selection, the linked links are that link alone
\* and the linked nodes are two nodes; right after click(link) they are the
\* link's source and target.
LinkSelectionOwnsContext ==
  selectedRelationship # Null =>
    /\ linkedRelationships = <<selectedRelationship>>
    /\ Len(linkedNodes) = 2
    /\ lastOp.op = "linkClick" =>
         /\ linkedNodes[1].id = EndpointId(lastOp.target.source)
         /\ linkedNodes[2].id = EndpointId(lastOp.target.target)


(***************************************************************************)
(* The hovered node and the highlight sets.                                *)
(***************************************************************************)
\* C35: in every reachable state a non-null hovered node is a member of the
\* highlight node set, also after a link hover or a link focus that follows
\* a node hover
HoverNodeHighlighted ==
  hoverNode # Null => hoverNode \in highlightNodes


(***************************************************************************)
(* Overlapping remote searches: handleApiSearch is async, so a second call *)
(* may be issued while the first is awaited, and the two awaited calls     *)
(* settle in either order.                                                 *)
(***************************************************************************)
\* remote searches awaited at one time
MaxOverlap == 2

NextOverlap ==
  \/ ApiSearchStart(MaxOverlap)
  \/ \E i \in 1..Len(pendingSearches), response \in Responses :
       ApiSearchResolve(i, response)
  \/ \E i \in 1..Len(pendingSearches) : ApiSearchReject(i)

SpecOverlap == InitSearch /\ [][NextOverlap]_vars

\* C36: when two remote searches overlap and both resolve, the stored search
\* results and the displayed graph data derive from the response of the
\* search issued last, whichever response arrives last: a response of the
\* earlier search that arrives after the later one's changes neither
OverlapLastIssuedWins ==
  [][(/\ lastOp.op = "apiSearch" /\ lastOp.outcome = "ok"
      /\ lastOp'.op = "apiSearch" /\ lastOp'.outcome = "ok")
     => LET last == IF lastOp'.earlier < lastOp.earlier
                      THEN apiSearchResults ELSE apiSearchResults'
        IN  /\ apiSearchResults' = last
            /\ graphData' = updateGraphData(last).graphData]_vars


(***************************************************************************)
(* The external-result mapper on responses whose items may match the same  *)
(* element of the snapshot.                                                *)
(***************************************************************************)
\* items of one response
MaxMapped == 2

MappedResponses ==
  {Response(TRUE, entries) : entries \in ContextsWith(MaxMapped, ResponseKeys)}

NextMapper ==
  \/ ApiSearchStart(MaxPending)
  \/ \E i \in 1..Len(pendingSearches), response \in MappedResponses :
       ApiSearchResolve(i, response)

SpecMapper == InitSearch /\ [][NextMapper]_vars

\* C37: the graph data the mapper has produced from a response holds each
\* node and each link at most once, whatever items and keys of the response
\* match the same element of the original snapshot
MapperOutputDistinct ==
  (lastOp.op = "apiSearch" /\ lastOp.outcome = "ok")
    => /\ \A i, j \in 1..Len(graphData.nodes) :
            graphData.nodes[i].id = graphData.nodes[j].id => i = j
       /\ \A i, j \in 1..Len(graphData.links) :
            graphData.links[i].lid = graphData.links[j].lid => i = j


(***************************************************************************)
(* The search list over a dataset with a node that has no neighbors        *)
(* property: the component reads the property as optional everywhere else  *)
(* (node.neighbors?.length, node.neighbors?.forEach, node.neighbors || []).*)
(***************************************************************************)
\* the node object without its neighbors property
WithoutNeighbors(node) == [f \in DOMAIN node \ {"neighbors"} |-> node[f]]

\* two linked persons, a document that has no neighbors property, and an
\* isolated person
SparseGraph(ver) ==
  MkData(ver,
         <<MkNode(ver, 1, "PERSON", JsNum(1), JsStr(11), FALSE, JsUndef, <<2>>, <<1>>, 1, 1),
           MkNode(ver, 2, "PERSON", JsNum(2), JsStr(12), FALSE, JsUndef, <<1>>, <<1>>, 2, 2),
           WithoutNeighbors(
             MkNode(ver, 3, "document", JsNum(3), JsStr(13), FALSE, JsUndef, <<>>, <<>>, 3, 3)),
           MkNode(ver, 4, "PERSON", JsNum(4), JsStr(14), FALSE, JsUndef, <<>>, <<>>, 4, 4)>>,
         <<MkLink(ver, 1, ObjEnd(1), ObjEnd(2), JsNum(1))>>)

InitSparse == AllFlagsOn /\ Mounted(SparseGraph(0))

NextSparse ==
  \/ \E results \in FuseResults(data, MaxResults) : Search(results)
  \/ \E open \in BOOLEAN : toggleDrawer(open)

SpecSparse == InitSparse /\ [][NextSparse]_vars

\* C38: after a search, every element the fuzzy index matched is in the
\* combined search result list exactly once: the node/link partition drops
\* no matched element and lists none twice
SearchKeepsEveryMatch ==
  lastOp.op = "search" =>
    \A item \in Range(lastOp.results) :
      Cardinality({i \in DOMAIN searchResults : searchResults[i] = item}) = 1

====
